---- MODULE Spec2Model ----
(***************************************************************************)
(* A model of src/measurements.py: the geometric validator                 *)
(* get_nuclei_features, the nuclei segmenter nuclei_segmentation and the   *)
(* contour extractor nuclei_features.  Each function is a small state      *)
(* machine of its own (SpecValidator, SpecSegmentation, SpecContours):     *)
(* Init draws the arguments of one call from bounded sets and the actions  *)
(* are the statements of the function.                                     *)
(***************************************************************************)
EXTENDS Integers, Sequences, FiniteSets

VARIABLES
    \* ---- get_nuclei_features (src/measurements.py:217-247)
    img_shape,        \* img.shape = <<rows, columns>>
    nuclei,           \* the candidate nucleus boundary
    cell_list,        \* records [id, boundary]
    nuclei_list,      \* records [id, boundary]
    centrosome_list,  \* points <<x, y>>
    frame,            \* the frame polygon, None before line 220
    cell,             \* the local `cell`: None while unbound, else Some(polygon)
    ci,               \* position of the `for cll in cell_list` loop
    n_nuc,            \* the local n_nuc
    ret,              \* the returned tuple, None before the return
    ret_line,         \* the line of the return statement that was taken
    vpc,              \* position in get_nuclei_features
    \* ---- nuclei_segmentation (src/measurements.py:62-112)
    image,            \* the intensity image, pixel <<row, column>> -> intensity
    thresh_val,       \* the Otsu threshold
    thresh,           \* the binary mask `thresh`: the set of True pixels
    cleared,          \* the mask after clear_border
    label_image,      \* pixel -> label, 0 is background
    properties,       \* the returned table: rows in index order
    spc,              \* position in nuclei_segmentation
    \* ---- nuclei_features (src/measurements.py:115-137)
    contours,         \* the contours traced by measure.find_contours
    area_thresh,      \* the argument area_thresh
    k,                \* the index of the enumerate loop
    _list,            \* the records appended so far
    cpc,              \* position in nuclei_features
    \* ---- centrosomes (src/measurements.py:140-149)
    detected,         \* the rows <<row, column, sigma>> found by feature.blob_doh
    blobs_log,        \* the array blobs_log; column 3 is carried as its square
    bpc,              \* position in centrosomes
    \* ---- cell_boundary, lines 192-214 (src/measurements.py:152-214)
    gabor_proc,       \* the 8-bit ridge map `gabor`, pixel -> value
    bin2,             \* the smoothed binary mask: the set of pixels set to 255
    markers_arg,      \* the argument `markers`: None or Some(label image)
    bin_nuc,          \* the thresholded nuclear channel: the set of pixels set
    markers,          \* the local `markers` after lines 192-197
    labels,           \* the output array of the watershed
    heap,             \* the priority queue of the watershed
    age,              \* the push counter of the watershed
    boundaries_list,  \* the records appended so far
    li,               \* position of the loop over the positive labels
    wpc               \* position in cell_boundary

vVars == <<img_shape, nuclei, cell_list, nuclei_list, centrosome_list,
           frame, cell, ci, n_nuc, ret, ret_line, vpc>>

sVars == <<image, thresh_val, thresh, cleared, label_image, properties, spc>>

cVars == <<contours, area_thresh, k, _list, cpc>>

bVars == <<detected, blobs_log, bpc>>

wVars == <<gabor_proc, bin2, markers_arg, bin_nuc, markers, labels, heap, age,
           boundaries_list, li, wpc>>

vars == <<vVars, sVars, cVars, bVars, wVars>>

\* ------------------------------------------------------------------------
\* Bounds of the model
\* ------------------------------------------------------------------------
MaxDim == 6
MaxCells == 2
MaxNuclei == 2
MaxCentrosomes == 3

\* ------------------------------------------------------------------------
\* Optional values and small helpers
\* ------------------------------------------------------------------------
None == <<>>
Some(v) == <<v>>
The(o) == o[1]

Min(S) == CHOOSE m \in S : \A n \in S : m <= n
Max(S) == CHOOSE m \in S : \A n \in S : m >= n

SeqsUpTo(S, n) == UNION {[1..m -> S] : m \in 0..n}

\* ------------------------------------------------------------------------
\* Geometry: polygons are vertex sequences <<x, y>>, as the boundary arrays
\* of the code.  The containers of this model (frame, cells) are
\* axis-aligned rectangles: shapely's a.contains(b) then says that no point
\* of b lies outside the closed rectangle a (b may touch a's boundary from
\* inside), and a.contains(point) that the point lies in a's interior.
\* ------------------------------------------------------------------------
Rect(x1, y1, x2, y2) == <<<<x1, y1>>, <<x1, y2>>, <<x2, y2>>, <<x2, y1>>>>

Polygon(boundary) == boundary

Point(cen) == <<cen[1], cen[2]>>

MinX(p) == Min({p[i][1] : i \in DOMAIN p})
MaxX(p) == Max({p[i][1] : i \in DOMAIN p})
MinY(p) == Min({p[i][2] : i \in DOMAIN p})
MaxY(p) == Max({p[i][2] : i \in DOMAIN p})

PolyContains(a, b) ==
    \A i \in DOMAIN b :
        /\ MinX(a) <= b[i][1] /\ b[i][1] <= MaxX(a)
        /\ MinY(a) <= b[i][2] /\ b[i][2] <= MaxY(a)

PointContains(a, pt) ==
    /\ MinX(a) < pt[1] /\ pt[1] < MaxX(a)
    /\ MinY(a) < pt[2] /\ pt[2] < MaxY(a)

\* ------------------------------------------------------------------------
\* get_nuclei_features: inputs
\* ------------------------------------------------------------------------
ImgShapes == {<<MaxDim - 1, MaxDim>>, <<MaxDim, MaxDim - 1>>}

NucleusShapes == {Rect(2, 2, 3, 3), Rect(MaxDim - 2, 3, MaxDim - 1, 4)}

CellShapes ==
    { Rect(1, 1, MaxDim - 2, MaxDim - 2),
      Rect(0, 1, MaxDim - 2, MaxDim - 2),
      Rect(1, 1, MaxDim, MaxDim - 2) }

CentrosomePoints == {<<3, 3>>, <<MaxDim - 2, 2>>}

Boundaries(shapes) == {[id |-> 0, boundary |-> s] : s \in shapes}

\* ------------------------------------------------------------------------
\* get_nuclei_features: the statements
\* ------------------------------------------------------------------------
\* lines 219-220: maxw, maxh = img.shape; frame = Polygon([(0, 0), (0, maxw),
\* (maxh, maxw), (maxh, 0)])
FrameSwapped(shape) ==
    LET maxw == shape[1]
        maxh == shape[2]
    IN  Polygon(<<<<0, 0>>, <<0, maxh>>, <<maxw, maxh>>, <<maxw, 0>>>>)

Frame(shape) ==
    LET maxw == shape[1]
        maxh == shape[2]
    IN  Polygon(<<<<0, 0>>, <<0, maxw>>, <<maxh, maxw>>, <<maxh, 0>>>>)

\* line 224: if cell.contains(nuc): break
BreakNever(c, nuc) == FALSE

BreakOnMatch(c, nuc) == PolyContains(c, nuc)

\* line 226: if not frame.contains(cell) or not cell.contains(nuc)
RejectGeometry(f, c, nuc) == ~PolyContains(f, c) \/ ~PolyContains(c, nuc)

\* lines 230-234: count the entries of nuclei_list the cell contains
RECURSIVE CountNuclei(_, _)
CountNuclei(c, nlist) ==
    IF nlist = <<>> THEN 0
    ELSE (IF PolyContains(c, Polygon(Head(nlist).boundary)) THEN 1 ELSE 0)
         + CountNuclei(c, Tail(nlist))

\* line 235: if n_nuc != 1
RejectNoNucleusOnly(n) == n = 0

RejectNucleiCount(n) == n # 1

\* lines 239-243: the centrosome points the cell contains, in input order
RECURSIVE CentrosomesInside(_, _)
CentrosomesInside(c, cens) ==
    IF cens = <<>> THEN <<>>
    ELSE LET cenpt == Point(Head(cens))
             rest == CentrosomesInside(c, Tail(cens))
         IN  IF PointContains(c, cenpt) THEN <<cenpt>> \o rest ELSE rest

\* line 244: if len(clist) == 0 or len(clist) > 2
RejectUnlessOneCentrosome(clist) == Len(clist) # 1

RejectCentrosomeCount(clist) == Len(clist) = 0 \/ Len(clist) > 2

Result(valid, c, nuc, clist) ==
    [valid |-> valid, cell |-> c, nuc |-> nuc, clist |-> clist]

\* a specification of one function leaves the variables of the others idle
SIdle ==
    /\ image = <<>>
    /\ thresh_val = 0
    /\ thresh = {}
    /\ cleared = {}
    /\ label_image = <<>>
    /\ properties = <<>>
    /\ spc = "idle"

CIdle ==
    /\ contours = <<>>
    /\ area_thresh = 0
    /\ k = 0
    /\ _list = <<>>
    /\ cpc = "idle"

BIdle ==
    /\ detected = <<>>
    /\ blobs_log = <<>>
    /\ bpc = "idle"

WIdle ==
    /\ gabor_proc = <<>>
    /\ bin2 = {}
    /\ markers_arg = <<>>
    /\ bin_nuc = {}
    /\ markers = <<>>
    /\ labels = <<>>
    /\ heap = {}
    /\ age = 0
    /\ boundaries_list = <<>>
    /\ li = 0
    /\ wpc = "idle"

VInit ==
    /\ img_shape \in ImgShapes
    /\ nuclei \in NucleusShapes
    /\ cell_list \in SeqsUpTo(Boundaries(CellShapes), MaxCells)
    /\ nuclei_list \in SeqsUpTo(Boundaries(NucleusShapes), MaxNuclei)
    /\ centrosome_list \in SeqsUpTo(CentrosomePoints, MaxCentrosomes)
    /\ frame = None
    /\ cell = None
    /\ ci = 0
    /\ n_nuc = 0
    /\ ret = None
    /\ ret_line = 0
    /\ vpc = "start"
    /\ SIdle
    /\ CIdle
    /\ BIdle
    /\ WIdle

\* lines 219-221
BuildFrame ==
    /\ vpc = "start"
    /\ frame' = Some(Frame(img_shape))
    /\ ci' = 1
    /\ vpc' = "cell_loop"
    /\ UNCHANGED <<img_shape, nuclei, cell_list, nuclei_list, centrosome_list,
                   cell, n_nuc, ret, ret_line>>
    /\ UNCHANGED <<sVars, cVars, bVars, wVars>>

\* lines 222-225, one iteration
CellLoopStep ==
    /\ vpc = "cell_loop"
    /\ ci <= Len(cell_list)
    /\ LET c == Polygon(cell_list[ci].boundary)
       IN  /\ cell' = Some(c)
           /\ IF BreakOnMatch(c, Polygon(nuclei))
              THEN vpc' = "frame_check" /\ ci' = ci
              ELSE vpc' = "cell_loop" /\ ci' = ci + 1
    /\ UNCHANGED <<img_shape, nuclei, cell_list, nuclei_list, centrosome_list,
                   frame, n_nuc, ret, ret_line>>
    /\ UNCHANGED <<sVars, cVars, bVars, wVars>>

\* line 222, the list is exhausted
CellLoopEnd ==
    /\ vpc = "cell_loop"
    /\ ci > Len(cell_list)
    /\ vpc' = "frame_check"
    /\ UNCHANGED <<img_shape, nuclei, cell_list, nuclei_list, centrosome_list,
                   frame, cell, ci, n_nuc, ret, ret_line>>
    /\ UNCHANGED <<sVars, cVars, bVars, wVars>>

\* line 226 reads `cell`, which no statement has bound when the loop body
\* never ran: UnboundLocalError
FrameCheckUnbound ==
    /\ vpc = "frame_check"
    /\ cell = None
    /\ vpc' = "raised"
    /\ UNCHANGED <<img_shape, nuclei, cell_list, nuclei_list, centrosome_list,
                   frame, cell, ci, n_nuc, ret, ret_line>>
    /\ UNCHANGED <<sVars, cVars, bVars, wVars>>

\* lines 226-227
FrameCheck ==
    /\ vpc = "frame_check"
    /\ cell # None
    /\ IF RejectGeometry(The(frame), The(cell), Polygon(nuclei))
       THEN /\ ret' = Some(Result(FALSE, cell, Polygon(nuclei), None))
            /\ ret_line' = 227
            /\ vpc' = "done"
       ELSE /\ vpc' = "count_nuclei"
            /\ UNCHANGED <<ret, ret_line>>
    /\ UNCHANGED <<img_shape, nuclei, cell_list, nuclei_list, centrosome_list,
                   frame, cell, ci, n_nuc>>
    /\ UNCHANGED <<sVars, cVars, bVars, wVars>>

\* lines 230-236
NucleiCount ==
    /\ vpc = "count_nuclei"
    /\ n_nuc' = CountNuclei(The(cell), nuclei_list)
    /\ IF RejectNucleiCount(n_nuc')
       THEN /\ ret' = Some(Result(FALSE, cell, Polygon(nuclei), None))
            /\ ret_line' = 236
            /\ vpc' = "done"
       ELSE /\ vpc' = "count_centrosomes"
            /\ UNCHANGED <<ret, ret_line>>
    /\ UNCHANGED <<img_shape, nuclei, cell_list, nuclei_list, centrosome_list,
                   frame, cell, ci>>
    /\ UNCHANGED <<sVars, cVars, bVars, wVars>>

\* lines 239-247
CentrosomeCount ==
    /\ vpc = "count_centrosomes"
    /\ LET clist == CentrosomesInside(The(cell), centrosome_list)
       IN  IF RejectCentrosomeCount(clist)
           THEN /\ ret' = Some(Result(FALSE, None, Polygon(nuclei), None))
                /\ ret_line' = 245
           ELSE /\ ret' = Some(Result(TRUE, cell, Polygon(nuclei), Some(clist)))
                /\ ret_line' = 247
    /\ vpc' = "done"
    /\ UNCHANGED <<img_shape, nuclei, cell_list, nuclei_list, centrosome_list,
                   frame, cell, ci, n_nuc>>
    /\ UNCHANGED <<sVars, cVars, bVars, wVars>>

VNext ==
    \/ BuildFrame
    \/ CellLoopStep
    \/ CellLoopEnd
    \/ FrameCheckUnbound
    \/ FrameCheck
    \/ NucleiCount
    \/ CentrosomeCount

SpecValidator == VInit /\ [][VNext]_vars

\* ------------------------------------------------------------------------
\* get_nuclei_features: the claims
\* ------------------------------------------------------------------------
ImgH == img_shape[1]
ImgW == img_shape[2]

\* every vertex of p lies in the closed box (x1, y1)-(x2, y2)
InBox(p, x1, y1, x2, y2) ==
    \A i \in DOMAIN p :
        /\ x1 <= p[i][1] /\ p[i][1] <= x2
        /\ y1 <= p[i][2] /\ p[i][2] <= y2

NucleiIn(c) ==
    Cardinality({j \in DOMAIN nuclei_list :
                    PolyContains(c, nuclei_list[j].boundary)})

CentrosomesIn(c) ==
    Cardinality({j \in DOMAIN centrosome_list :
                    PointContains(c, centrosome_list[j])})

ContainingIdx ==
    {j \in DOMAIN cell_list : PolyContains(cell_list[j].boundary, nuclei)}

FirstContaining == cell_list[Min(ContainingIdx)].boundary

Acceptable(c) ==
    /\ InBox(c, 0, 0, ImgW, ImgH)
    /\ PolyContains(c, nuclei)
    /\ NucleiIn(c) = 1
    /\ CentrosomesIn(c) \in {1, 2}

Returned == vpc = "done"
Valid == Returned /\ The(ret).valid

\* C1: whenever get_nuclei_features returns valid=true, the frame contains
\* the returned cell, the cell contains the candidate nucleus, exactly one
\* entry of the nucleus list is contained in the cell, and one or two
\* centrosome points lie inside the cell.
C1_ValidTupleConsistent ==
    Valid =>
        /\ The(ret).cell # None
        /\ Acceptable(The(The(ret).cell))

\* a valid tuple whose cell holds one of two listed nuclei and two centrosomes
C1_Witness ==
    /\ Valid
    /\ Len(nuclei_list) = 2
    /\ nuclei_list[1] # nuclei_list[2]
    /\ Len(The(The(ret).clist)) = 2

\* C2: if the first cell in list order that contains the candidate nucleus
\* lies in the frame, holds exactly one listed nucleus and one or two
\* centrosome points, the call returns valid=true with that cell, the
\* candidate nucleus and the centrosome points inside the cell in input order.
C2_AcceptedWhenConsistent ==
    (Returned /\ ContainingIdx # {} /\ Acceptable(FirstContaining)) =>
        LET c == FirstContaining
            Inside(pt) == PointContains(c, pt)
        IN  ret = Some(Result(TRUE, Some(c), nuclei,
                              Some(SelectSeq(centrosome_list, Inside))))

\* accepted with two different centrosome points, returned in input order
C2_Witness ==
    /\ Valid
    /\ ContainingIdx # {}
    /\ Acceptable(FirstContaining)
    /\ Len(The(The(ret).clist)) = 2
    /\ The(The(ret).clist)[1] # The(The(ret).clist)[2]

\* C3: get_nuclei_features never raises, whatever the input (an empty cell
\* list included).
C3_NeverRaises == vpc # "raised"

\* C4: the cell validated is the first cell in list order that contains the
\* candidate nucleus: the checks and the returned cell use only that one,
\* and a later containing cell is never tried when it is rejected.
C4_FirstMatchWins ==
    (Returned /\ ContainingIdx # {}) =>
        /\ cell = Some(FirstContaining)
        /\ The(ret).valid <=> Acceptable(FirstContaining)
        /\ The(ret).cell \in {Some(FirstContaining), None}

\* two cells contain the nucleus, the first is rejected, a later one would
\* have passed every check, and the call returned invalid
C4_Witness ==
    /\ Returned
    /\ Cardinality(ContainingIdx) >= 2
    /\ ~Acceptable(FirstContaining)
    /\ \E j \in ContainingIdx : Acceptable(cell_list[j].boundary)
    /\ ~The(ret).valid

\* C5: no accepted tuple has a cell touching the image border: the returned
\* cell of a valid result has no point on the boundary of the frame.
C5_AcceptedCellOffBorder ==
    Valid =>
        LET c == The(The(ret).cell)
        IN  /\ 0 < MinX(c) /\ MaxX(c) < ImgW
            /\ 0 < MinY(c) /\ MaxY(c) < ImgH

\* C6: for an image of H rows and W columns the frame spans x in 0..W and
\* y in 0..H, and a cell passes the frame test exactly when it lies inside
\* (0,0)-(W,H).
C6_FrameIsWidthByHeight ==
    /\ frame # None =>
          /\ MinX(The(frame)) = 0 /\ MaxX(The(frame)) = ImgW
          /\ MinY(The(frame)) = 0 /\ MaxY(The(frame)) = ImgH
    /\ (Returned /\ PolyContains(The(cell), nuclei)) =>
          (ret_line = 227 <=> ~InBox(The(cell), 0, 0, ImgW, ImgH))

\* a cell that passed the frame test of a non-square image and would not
\* fit a frame with width and height exchanged
C6_Witness ==
    /\ Returned
    /\ ImgH # ImgW
    /\ PolyContains(The(cell), nuclei)
    /\ ret_line # 227
    /\ ~InBox(The(cell), 0, 0, ImgH, ImgW)

\* ------------------------------------------------------------------------
\* nuclei_segmentation: image grid and inputs
\* ------------------------------------------------------------------------
ImgRows == 10
ImgCols == 20

\* skimage defaults taken by the calls of lines 72 and 73
AreaThreshold == 64
MinSize == 64

Pixels == (0..(ImgRows - 1)) \X (0..(ImgCols - 1))

Border ==
    {p \in Pixels : p[1] = 0 \/ p[1] = ImgRows - 1 \/ p[2] = 0 \/ p[2] = ImgCols - 1}

\* Input images are painted from rectangular patches [r0, r1] x [c0, c1] of
\* one intensity on a background of 0, later patches over earlier ones.
Patch(r0, r1, c0, c1, v) == [r0 |-> r0, r1 |-> r1, c0 |-> c0, c1 |-> c1, v |-> v]

PatchList ==
    << Patch(1, 8, 1, 8, 2),       \* a nucleus of 64 pixels off the border
       Patch(1, 8, 10, 17, 2),     \* a second one
       Patch(0, 3, 10, 17, 2),     \* an extension to the top border
       Patch(1, 8, 10, 17, 1),     \* the second nucleus dimmed
       Patch(8, 8, 10, 17, 0),     \* a row cut off the second nucleus
       Patch(4, 4, 4, 4, 0),       \* a hole in the first nucleus
       Patch(4, 4, 9, 9, 2) >>     \* a bridge between the two

InPatch(pa, p) ==
    /\ pa.r0 <= p[1] /\ p[1] <= pa.r1
    /\ pa.c0 <= p[2] /\ p[2] <= pa.c1

Painted(sel) ==
    [p \in Pixels |->
        LET hits == {i \in sel : InPatch(PatchList[i], p)}
        IN  IF hits = {} THEN 0 ELSE PatchList[Max(hits)].v]

Images == {Painted(sel) : sel \in SUBSET (DOMAIN PatchList)}

Levels(img) == {img[p] : p \in Pixels}

\* ------------------------------------------------------------------------
\* nuclei_segmentation: the library steps
\* ------------------------------------------------------------------------
\* connectivity 1: the 4 edge neighbours; connectivity 2: the 8 neighbours
Neighbours(p, connectivity) ==
    {<<p[1] - 1, p[2]>>, <<p[1] + 1, p[2]>>, <<p[1], p[2] - 1>>, <<p[1], p[2] + 1>>}
    \cup (IF connectivity = 2
          THEN {<<p[1] - 1, p[2] - 1>>, <<p[1] - 1, p[2] + 1>>,
                <<p[1] + 1, p[2] - 1>>, <<p[1] + 1, p[2] + 1>>}
          ELSE {})

\* the connected component of the pixels `seen`, grown from `frontier`
RECURSIVE Flood(_, _, _, _)
Flood(S, connectivity, seen, frontier) ==
    IF frontier = {} THEN seen
    ELSE LET nxt == ((UNION {Neighbours(p, connectivity) : p \in frontier})
                        \cap S) \ seen
         IN  Flood(S, connectivity, seen \cup nxt, nxt)

\* the connected components of S in raster order of their first pixel
RECURSIVE Scan(_, _, _, _)
Scan(S, connectivity, at, acc) ==
    IF S = {} \/ at >= ImgRows * ImgCols THEN acc
    ELSE LET p == <<at \div ImgCols, at % ImgCols>>
         IN  IF p \in S
             THEN LET comp == Flood(S, connectivity, {p}, {p})
                  IN  Scan(S \ comp, connectivity, at + 1, Append(acc, comp))
             ELSE Scan(S, connectivity, at + 1, acc)

Components(S, connectivity) == Scan(S, connectivity, 0, <<>>)

\* line 71: thresh = image >= thresh_val
Binarize(img, t) == {p \in Pixels : img[p] >= t}

\* morphology.remove_small_objects(ar, min_size, connectivity=1)
RemoveSmallObjects(ar, min_size) ==
    LET ccs == Components(ar, 1)
    IN  UNION {ccs[i] : i \in {j \in DOMAIN ccs : Cardinality(ccs[j]) >= min_size}}

\* morphology.remove_small_holes(ar): small objects of the complement are
\* removed from the complement
RemoveSmallHoles(ar, area_threshold) ==
    Pixels \ RemoveSmallObjects(Pixels \ ar, area_threshold)

\* segmentation.clear_border(thresh): the components (full connectivity)
\* with a pixel on the image border are set to background
ClearNothing(ar) == ar

ClearBorder(ar) ==
    LET ccs == Components(ar, 2)
    IN  UNION {ccs[i] : i \in {j \in DOMAIN ccs : ccs[j] \cap Border = {}}}

\* measure.label(cleared): labels 1, 2, ... in raster order, full connectivity
Label(ar) ==
    LET ccs == Components(ar, 2)
    IN  [p \in Pixels |->
            IF p \in ar THEN CHOOSE i \in DOMAIN ccs : p \in ccs[i] ELSE 0]

\* lines 88-105: one row per region of measure.regionprops, in label order,
\* with the label as index
RECURSIVE RegionPropsFrom(_, _, _)
RegionPropsFrom(lab, img, l) ==
    LET region == {p \in Pixels : lab[p] = l}
    IN  IF \A p \in Pixels : lab[p] < l THEN <<>>
        ELSE (IF region = {} THEN <<>>
              ELSE << [label |-> l,
                       area |-> Cardinality(region),
                       max_intensity |-> Max({img[p] : p \in region}),
                       min_intensity |-> Min({img[p] : p \in region})] >>)
             \o RegionPropsFrom(lab, img, l + 1)

RegionPropsSkipFirst(lab, img) == RegionPropsFrom(lab, img, 2)

RegionProps(lab, img) == RegionPropsFrom(lab, img, 1)

VIdle ==
    /\ img_shape = <<>>
    /\ nuclei = <<>>
    /\ cell_list = <<>>
    /\ nuclei_list = <<>>
    /\ centrosome_list = <<>>
    /\ frame = None
    /\ cell = None
    /\ ci = 0
    /\ n_nuc = 0
    /\ ret = None
    /\ ret_line = 0
    /\ vpc = "idle"

SInit ==
    /\ image \in Images
    /\ thresh_val = 0
    /\ thresh = {}
    /\ cleared = {}
    /\ label_image = <<>>
    /\ properties = <<>>
    /\ spc = "start"
    /\ VIdle
    /\ CIdle
    /\ BIdle
    /\ WIdle

\* line 70 on an image of a single intensity: scikit-image up to 0.17 raises
\* ValueError ("threshold_otsu is expected to work with images having more
\* than one color"), 0.18 returns that intensity
OtsuRaises ==
    /\ spc = "start"
    /\ Cardinality(Levels(image)) = 1
    /\ spc' = "raised"
    /\ UNCHANGED <<image, thresh_val, thresh, cleared, label_image, properties>>
    /\ UNCHANGED <<vVars, cVars, bVars, wVars>>

\* lines 70-71.  threshold_otsu returns a level between the smallest and the
\* largest intensity of the image; which one depends on the histogram
\* binning of the installed scikit-image, so every such level is drawn.
OtsuThreshold ==
    /\ spc = "start"
    /\ \E t \in Min(Levels(image))..Max(Levels(image)) :
          /\ thresh_val' = t
          /\ thresh' = Binarize(image, t)
    /\ spc' = "holes"
    /\ UNCHANGED <<image, cleared, label_image, properties>>
    /\ UNCHANGED <<vVars, cVars, bVars, wVars>>

\* line 72
FillHoles ==
    /\ spc = "holes"
    /\ thresh' = RemoveSmallHoles(thresh, AreaThreshold)
    /\ spc' = "objects"
    /\ UNCHANGED <<image, thresh_val, cleared, label_image, properties>>
    /\ UNCHANGED <<vVars, cVars, bVars, wVars>>

\* line 73
DropSmallObjects ==
    /\ spc = "objects"
    /\ thresh' = RemoveSmallObjects(thresh, MinSize)
    /\ spc' = "clear"
    /\ UNCHANGED <<image, thresh_val, cleared, label_image, properties>>
    /\ UNCHANGED <<vVars, cVars, bVars, wVars>>

\* line 77
ClearBorderStep ==
    /\ spc = "clear"
    /\ cleared' = ClearBorder(thresh)
    /\ spc' = "label"
    /\ UNCHANGED <<image, thresh_val, thresh, label_image, properties>>
    /\ UNCHANGED <<vVars, cVars, bVars, wVars>>

\* line 78
LabelStep ==
    /\ spc = "label"
    /\ label_image' = Label(cleared)
    /\ spc' = "props"
    /\ UNCHANGED <<image, thresh_val, thresh, cleared, properties>>
    /\ UNCHANGED <<vVars, cVars, bVars, wVars>>

\* lines 81-112: the table is empty when no region was found
ComputeProperties ==
    /\ spc = "props"
    /\ LET rows == RegionProps(label_image, image)
       IN  properties' = IF Len(rows) = 0 THEN <<>> ELSE rows
    /\ spc' = "done"
    /\ UNCHANGED <<image, thresh_val, thresh, cleared, label_image>>
    /\ UNCHANGED <<vVars, cVars, bVars, wVars>>

SNext ==
    \/ OtsuRaises
    \/ OtsuThreshold
    \/ FillHoles
    \/ DropSmallObjects
    \/ ClearBorderStep
    \/ LabelStep
    \/ ComputeProperties

SpecSegmentation == SInit /\ [][SNext]_vars

\* ------------------------------------------------------------------------
\* nuclei_segmentation: the claims
\* ------------------------------------------------------------------------
Segmented == spc = "done"

PositiveLabels == {label_image[p] : p \in Pixels} \ {0}

\* C7: no pixel with a positive label of the returned label image lies in
\* row 0, row H-1, column 0 or column W-1; the labelled pixels are those
\* left by border clearing, which follows hole filling and small-object
\* removal.
C7_NoLabelOnBorder ==
    Segmented =>
        /\ \A p \in Border : label_image[p] = 0
        /\ {p \in Pixels : label_image[p] > 0} = cleared
        /\ cleared \subseteq thresh

\* a label image with a labelled nucleus, from a mask in which another
\* component reached the border and was cleared
C7_Witness ==
    /\ Segmented
    /\ PositiveLabels # {}
    /\ thresh \cap Border # {}

\* C8: the table has exactly one row per distinct positive label of the
\* returned label image, indexed by that label, and a call in which no
\* component survives (an all-background image) returns an empty table
\* without raising.
C8_OneRowPerLabel ==
    /\ spc # "raised"
    /\ Segmented =>
          /\ {properties[i].label : i \in DOMAIN properties} = PositiveLabels
          /\ Len(properties) = Cardinality(PositiveLabels)

\* the part of C8 about a call that returns: one row per positive label
C8_RowsMatchLabels ==
    Segmented =>
        /\ {properties[i].label : i \in DOMAIN properties} = PositiveLabels
        /\ Len(properties) = Cardinality(PositiveLabels)
        /\ \A i \in DOMAIN properties :
              properties[i].area =
                  Cardinality({p \in Pixels : label_image[p] = properties[i].label})

\* a returned table of two rows
C8_TwoRows == Segmented /\ Len(properties) = 2

\* ------------------------------------------------------------------------
\* nuclei_features: inputs
\* ------------------------------------------------------------------------
MaxContours == 3

\* the default of the parameter area_thresh
AreaThreshDefault == 100

AreaThresholds == {AreaThreshDefault - 10, AreaThreshDefault}

\* A traced contour is a closed vertex sequence <<row, column>> whose last
\* point repeats the first, as measure.find_contours returns them.
Box(h, w) == <<<<1, 1>>, <<1 + h, 1>>, <<1 + h, 1 + w>>, <<1, 1 + w>>, <<1, 1>>>>

ContourShapes ==
    { Box(10, 11),                                       \* area 110
      Box(10, 10),                                       \* area 100
      Box(9, 10),                                        \* area 90
      <<<<0, 0>>, <<0, 11>>, <<20, 0>>, <<0, 0>>>> }     \* area 110, clockwise

\* ------------------------------------------------------------------------
\* nuclei_features: the statements
\* ------------------------------------------------------------------------
Abs(n) == IF n < 0 THEN -n ELSE n

\* np.roll(a, 1)[i] = a[i - 1], the last element wrapping to the front
Prev(poly, i) == IF i = 1 THEN poly[Len(poly)] ELSE poly[i - 1]

RECURSIVE Shoelace(_, _)
Shoelace(poly, i) ==
    IF i > Len(poly) THEN 0
    ELSE poly[i][1] * Prev(poly, i)[2] - poly[i][2] * Prev(poly, i)[1]
         + Shoelace(poly, i + 1)

\* lines 118-119: polygon_area is 0.5 * |dot(x, roll(y, 1)) - dot(y, roll(x, 1))|;
\* the model carries twice the area to stay in the integers
PolygonArea2(poly) == Abs(Shoelace(poly, 1))

\* line 127: if polygon_area(contr[:, 0], contr[:, 1]) > area_thresh
\* (KeepUnlessTiny: the area taken without its factor 0.5)
KeepUnlessTiny(contr, thr) == PolygonArea2(contr) > thr

KeepContour(contr, thr) == PolygonArea2(contr) > 2 * thr

\* line 123: tf.SimilarityTransform(rotation=math.pi / 2), the matrix
\* [[cos, -sin], [sin, cos]] of a quarter turn
Cos90 == 0
Sin90 == 1

Rotate(pt) == <<Cos90 * pt[1] - Sin90 * pt[2], Sin90 * pt[1] + Cos90 * pt[2]>>

\* lines 128-129: contr = tform(contr); contr[:, 0] *= -1
Transform(contr) ==
    [i \in DOMAIN contr |-> <<-1 * Rotate(contr[i])[1], Rotate(contr[i])[2]>>]

CInit ==
    /\ contours \in SeqsUpTo(ContourShapes, MaxContours)
    /\ area_thresh \in AreaThresholds
    /\ k = 0
    /\ _list = <<>>
    /\ cpc = "start"
    /\ VIdle
    /\ SIdle
    /\ BIdle
    /\ WIdle

\* lines 122-126
TraceContours ==
    /\ cpc = "start"
    /\ k' = 0
    /\ _list' = <<>>
    /\ cpc' = "loop"
    /\ UNCHANGED <<contours, area_thresh>>
    /\ UNCHANGED <<vVars, sVars, bVars, wVars>>

\* lines 126-133, an iteration that keeps the contour (contours[k + 1] is
\* the code's contours[k])
AppendContour ==
    /\ cpc = "loop"
    /\ k < Len(contours)
    /\ KeepContour(contours[k + 1], area_thresh)
    /\ _list' = Append(_list, [id |-> k, boundary |-> Transform(contours[k + 1])])
    /\ k' = k + 1
    /\ UNCHANGED <<contours, area_thresh, cpc>>
    /\ UNCHANGED <<vVars, sVars, bVars, wVars>>

\* lines 126-127, an iteration that discards the contour
SkipContour ==
    /\ cpc = "loop"
    /\ k < Len(contours)
    /\ ~KeepContour(contours[k + 1], area_thresh)
    /\ k' = k + 1
    /\ UNCHANGED <<contours, area_thresh, _list, cpc>>
    /\ UNCHANGED <<vVars, sVars, bVars, wVars>>

\* line 137
ReturnList ==
    /\ cpc = "loop"
    /\ k = Len(contours)
    /\ cpc' = "done"
    /\ UNCHANGED <<contours, area_thresh, k, _list>>
    /\ UNCHANGED <<vVars, sVars, bVars, wVars>>

CNext ==
    \/ TraceContours
    \/ AppendContour
    \/ SkipContour
    \/ ReturnList

SpecContours == CInit /\ [][CNext]_vars

\* ------------------------------------------------------------------------
\* nuclei_features: the claims
\* ------------------------------------------------------------------------
Extracted == cpc = "done"

\* C9: every returned boundary has shoelace area, measured on the returned
\* (transformed) polygon, of at least area_thresh, and no traced contour
\* whose area is below area_thresh is in the result.
C9_ReturnedAreaAtLeastThreshold ==
    /\ \A i \in DOMAIN _list :
          PolygonArea2(_list[i].boundary) >= 2 * area_thresh
    /\ Extracted =>
          \A j \in DOMAIN contours :
              PolygonArea2(contours[j]) < 2 * area_thresh =>
                  \A i \in DOMAIN _list : _list[i].id # j - 1

\* a result that kept one contour and dropped one below the threshold
C9_Witness ==
    /\ Extracted
    /\ _list # <<>>
    /\ \E j \in DOMAIN contours : PolygonArea2(contours[j]) < 2 * area_thresh

\* C10: the returned records are numbered consecutively with no gaps,
\* whatever contours the area filter discarded.
C10_ConsecutiveIds ==
    Extracted =>
        \A i \in 1..(Len(_list) - 1) : _list[i + 1].id = _list[i].id + 1

\* ------------------------------------------------------------------------
\* centrosomes: inputs
\* ------------------------------------------------------------------------
MaxBlobs == 2

\* rows <<row, column, sigma>> as feature.blob_doh returns them
BlobRows == {<<2, 5, 1>>, <<7, 3, 2>>, <<4, 4, 3>>}

\* ------------------------------------------------------------------------
\* centrosomes: the statements
\* ------------------------------------------------------------------------
\* Column 3 holds sigma and, after line 144, sigma * sqrt(2); the model
\* carries the square of the column so that the factor stays an integer.
Squared(n) == n * n

\* line 142: blobs_log = feature.blob_doh(...)
BlobArray(rows) ==
    [i \in DOMAIN rows |-> <<rows[i][1], rows[i][2], Squared(rows[i][3])>>]

\* line 144: blobs_log[:, 2] = blobs_log[:, 2] * sqrt(2)
ScaleRadius(blob) == <<blob[1], blob[2], 2 * blob[3]>>

\* lines 145-146: blobs_log[:, 0:2] = tform(blobs_log[:, 0:2])
RotateColumns(blob) ==
    <<Rotate(<<blob[1], blob[2]>>)[1], Rotate(<<blob[1], blob[2]>>)[2], blob[3]>>

\* line 147: blobs_log[:, 0] *= -1
NegateSecondColumn(blob) == <<blob[1], -1 * blob[2], blob[3]>>

NegateFirstColumn(blob) == <<-1 * blob[1], blob[2], blob[3]>>

BInit ==
    /\ detected \in SeqsUpTo(BlobRows, MaxBlobs)
    /\ blobs_log = <<>>
    /\ bpc = "start"
    /\ VIdle
    /\ SIdle
    /\ CIdle
    /\ WIdle

\* line 142
DetectBlobs ==
    /\ bpc = "start"
    /\ blobs_log' = BlobArray(detected)
    /\ bpc' = "scale"
    /\ UNCHANGED detected
    /\ UNCHANGED <<vVars, sVars, cVars, wVars>>

\* line 144
ScaleRadii ==
    /\ bpc = "scale"
    /\ blobs_log' = [i \in DOMAIN blobs_log |-> ScaleRadius(blobs_log[i])]
    /\ bpc' = "rotate"
    /\ UNCHANGED detected
    /\ UNCHANGED <<vVars, sVars, cVars, wVars>>

\* lines 145-146
RotateBlobs ==
    /\ bpc = "rotate"
    /\ blobs_log' = [i \in DOMAIN blobs_log |-> RotateColumns(blobs_log[i])]
    /\ bpc' = "negate"
    /\ UNCHANGED detected
    /\ UNCHANGED <<vVars, sVars, cVars, wVars>>

\* lines 147-149
NegateAndReturn ==
    /\ bpc = "negate"
    /\ blobs_log' = [i \in DOMAIN blobs_log |-> NegateFirstColumn(blobs_log[i])]
    /\ bpc' = "done"
    /\ UNCHANGED detected
    /\ UNCHANGED <<vVars, sVars, cVars, wVars>>

\* The two components that apply the coordinate transform: a behaviour is
\* one call of nuclei_features or one call of centrosomes.
TInit == CInit \/ BInit

TNext ==
    \/ TraceContours
    \/ AppendContour
    \/ SkipContour
    \/ ReturnList
    \/ DetectBlobs
    \/ ScaleRadii
    \/ RotateBlobs
    \/ NegateAndReturn

SpecTransform == TInit /\ [][TNext]_vars

\* ------------------------------------------------------------------------
\* the coordinate transform: the claim
\* ------------------------------------------------------------------------
\* the inverse map: negate the first coordinate back, then turn by -pi/2
\* (the matrix [[cos, sin], [-sin, cos]])
InversePoint(q) ==
    LET x == -1 * q[1]
        y == q[2]
    IN  <<Cos90 * x + Sin90 * y, (-1 * Sin90) * x + Cos90 * y>>

InverseTransform(contr) == [i \in DOMAIN contr |-> InversePoint(contr[i])]

\* C11: nuclei_features and centrosomes apply the same map (a turn by pi/2,
\* then the first coordinate negated); the inverse map applied to a returned
\* point gives back the original point; and the radius column of a blob is
\* the one line 144 left, untouched by the transform.
C11_SameInvertibleTransform ==
    /\ \A i \in DOMAIN _list :
          InverseTransform(_list[i].boundary) = contours[_list[i].id + 1]
    /\ bpc = "done" =>
          /\ Len(blobs_log) = Len(detected)
          /\ \A i \in DOMAIN blobs_log :
                LET orig == <<detected[i][1], detected[i][2]>>
                    out == <<blobs_log[i][1], blobs_log[i][2]>>
                IN  /\ out = Transform(<<orig>>)[1]
                    /\ InversePoint(out) = orig
                    /\ blobs_log[i][3] = 2 * Squared(detected[i][3])

\* two blobs returned, one of them off the diagonal row = column
C11_Witness ==
    /\ bpc = "done"
    /\ Len(blobs_log) = 2
    /\ \E i \in DOMAIN blobs_log : blobs_log[i][1] # blobs_log[i][2]

\* a kept contour, transformed, on the nuclei_features side
C11_ContourTransformed == cpc = "done" /\ _list # <<>>

\* ------------------------------------------------------------------------
\* cell_boundary (src/measurements.py:150-214), from the watershed on
\* ------------------------------------------------------------------------
\* The images of cell_boundary are modelled on a grid of their own, small
\* enough to follow the flooding pixel by pixel.  The filtering of lines
\* 167-189 is not modelled: its results, the ridge map `gabor` and the mask
\* `bin2`, are drawn from the sets below, and so is `bin_nuc`, the
\* thresholded nuclear channel of lines 194-196.
WsRows == 3
WsCols == 5

\* uint8 arithmetic of `-gabor_proc`
Uint8 == 256

WsPixels == (0..(WsRows - 1)) \X (0..(WsCols - 1))

\* the ridge maps (8-bit after line 183): flat, one ridge down column 2,
\* and a ramp across the columns
GaborMaps ==
    { [p \in WsPixels |-> 0],
      [p \in WsPixels |-> IF p[2] = 2 THEN 200 ELSE 10],
      [p \in WsPixels |-> 50 * (p[2] % 3) + p[1]] }

\* the masks: everything, two blocks parted by column 2, the left block
\* alone, nothing
MaskShapes ==
    { WsPixels,
      {p \in WsPixels : p[2] # 2},
      {p \in WsPixels : p[2] < 2},
      {} }

\* label images a caller passes as `markers`
SuppliedMarkers ==
    { [p \in WsPixels |-> IF p = <<1, 0>> THEN 1
                          ELSE IF p = <<1, WsCols - 1>> THEN 2 ELSE 0],
      [p \in WsPixels |-> IF p = <<1, 0>> THEN 2 ELSE 0] }

\* the thresholded nuclear channel
NucleusMasks ==
    { {},
      {<<1, 0>>},
      {<<1, 0>>, <<1, WsCols - 1>>},
      {<<1, 2>>},
      {<<0, 0>>, <<1, 0>>, <<1, 2>>} }

\* line 197: ndi.label(bin_nuc)[0], labels 1, 2, ... in raster order,
\* default structure (edge neighbours)
NdiLabel(ar) ==
    LET ccs == Components(ar, 1)
    IN  [p \in WsPixels |->
            IF p \in ar THEN CHOOSE i \in DOMAIN ccs : p \in ccs[i] ELSE 0]

\* line 200: `-gabor_proc` on an 8-bit array wraps around
Negate8(g) == (Uint8 - g) % Uint8

\* watershed, input validation: one build of the library hands the markers
\* on as they are, another multiplies them by the mask
KeepMarkers(mk, mask) == mk

MaskMarkers(mk, mask) == [p \in WsPixels |-> IF p \in mask THEN mk[p] ELSE 0]

\* watershed: one queue element per marker pixel, value of the image there
SeedHeap(out, img) ==
    {[value |-> Negate8(img[p]), age |-> 0, index |-> p] :
        p \in {q \in WsPixels : out[q] # 0}}

\* watershed: the queue is ordered by value, then by age
Smaller(a, b) == a.value < b.value \/ (a.value = b.value /\ a.age < b.age)

Smallest(hp) == {e \in hp : \A f \in hp : ~ Smaller(f, e)}

\* watershed, connectivity 1: the neighbours in the order of the offsets
NeighbourSeq(p) ==
    SelectSeq(<<<<p[1] - 1, p[2]>>, <<p[1], p[2] - 1>>,
                <<p[1], p[2] + 1>>, <<p[1] + 1, p[2]>>>>,
              LAMBDA q : q \in WsPixels)

\* watershed: a neighbour is taken when it is in the mask and unlabelled
AnyUnlabelled(q, mask, out) == out[q] = 0

Floodable(q, mask, out) == q \in mask /\ out[q] = 0

\* watershed: the neighbours of the popped element, one after the other;
\* a taken neighbour gets the label of the popped pixel and is pushed
RECURSIVE Spread(_, _, _, _, _, _, _)
Spread(nbrs, src, img, mask, out, hp, ag) ==
    IF nbrs = <<>> THEN [out |-> out, hp |-> hp, age |-> ag]
    ELSE LET q == Head(nbrs)
         IN  IF Floodable(q, mask, out)
             THEN Spread(Tail(nbrs), src, img, mask,
                         [out EXCEPT ![q] = out[src]],
                         hp \cup {[value |-> Negate8(img[q]), age |-> ag + 1,
                                   index |-> q]},
                         ag + 1)
             ELSE Spread(Tail(nbrs), src, img, mask, out, hp, ag)

\* line 204: [l for l in np.unique(labels) if l > 0], ascending
RECURSIVE Ascending(_)
Ascending(S) ==
    IF S = {} THEN <<>>
    ELSE LET lo == CHOOSE x \in S : \A y \in S : x <= y
         IN  <<lo>> \o Ascending(S \ {lo})

UniquePositive(lab) == Ascending({lab[p] : p \in WsPixels} \ {n \in {lab[p] : p \in WsPixels} : n <= 0})

\* lines 205-207: the outer contours of the pixels carrying label l, one per
\* connected component (full connectivity)
LabelContours(lab, l) == Components({p \in WsPixels : lab[p] = l}, 2)

\* lines 207-211: the contour as [x, y] points: the pixels of the component
\* with an edge neighbour outside it, x the column and y the row.  The
\* points are listed in raster order and none is dropped, where
\* CHAIN_APPROX_SIMPLE follows the outline and drops the inner points of
\* straight runs.
BoundaryOf(comp) ==
    LET edge == {p \in comp : Neighbours(p, 1) \ comp # {}}
        order == Ascending({p[1] * WsCols + p[2] : p \in edge})
    IN  [i \in DOMAIN order |-> <<order[i] % WsCols, order[i] \div WsCols>>]

\* line 212: the record of the label l at position i of the enumeration
RecordByIndex(i, l, boundary) == [id |-> i, boundary |-> boundary]

Record(i, l, boundary) == [id |-> l, boundary |-> boundary]

WInit ==
    /\ gabor_proc \in GaborMaps
    /\ bin2 \in MaskShapes
    /\ \/ markers_arg = None /\ bin_nuc \in NucleusMasks
       \/ markers_arg \in {Some(mk) : mk \in SuppliedMarkers} /\ bin_nuc = {}
    /\ markers = <<>>
    /\ labels = <<>>
    /\ heap = {}
    /\ age = 0
    /\ boundaries_list = <<>>
    /\ li = 0
    /\ wpc = "start"
    /\ VIdle
    /\ SIdle
    /\ CIdle
    /\ BIdle

\* line 192, markers given
UseMarkers ==
    /\ wpc = "start"
    /\ markers_arg # None
    /\ markers' = The(markers_arg)
    /\ wpc' = "watershed"
    /\ UNCHANGED <<gabor_proc, bin2, markers_arg, bin_nuc, labels, heap, age,
                   boundaries_list, li>>
    /\ UNCHANGED <<vVars, sVars, cVars, bVars>>

\* lines 192-197, markers from the nuclear channel
DeriveMarkers ==
    /\ wpc = "start"
    /\ markers_arg = None
    /\ markers' = NdiLabel(bin_nuc)
    /\ wpc' = "watershed"
    /\ UNCHANGED <<gabor_proc, bin2, markers_arg, bin_nuc, labels, heap, age,
                   boundaries_list, li>>
    /\ UNCHANGED <<vVars, sVars, cVars, bVars>>

\* line 200, entry of the watershed in a build that keeps the markers
WatershedKeepingMarkers ==
    /\ wpc = "watershed"
    /\ labels' = KeepMarkers(markers, bin2)
    /\ heap' = SeedHeap(labels', gabor_proc)
    /\ age' = 0
    /\ wpc' = "flood"
    /\ UNCHANGED <<gabor_proc, bin2, markers_arg, bin_nuc, markers,
                   boundaries_list, li>>
    /\ UNCHANGED <<vVars, sVars, cVars, bVars>>

\* line 200, entry of the watershed in a build that masks the markers
WatershedMaskingMarkers ==
    /\ wpc = "watershed"
    /\ labels' = MaskMarkers(markers, bin2)
    /\ heap' = SeedHeap(labels', gabor_proc)
    /\ age' = 0
    /\ wpc' = "flood"
    /\ UNCHANGED <<gabor_proc, bin2, markers_arg, bin_nuc, markers,
                   boundaries_list, li>>
    /\ UNCHANGED <<vVars, sVars, cVars, bVars>>

\* line 200, one turn of the flooding loop: pop the smallest element (any
\* of them on a tie) and spread its label to its neighbours
PopAndSpread ==
    /\ wpc = "flood"
    /\ \E elem \in Smallest(heap) :
          LET r == Spread(NeighbourSeq(elem.index), elem.index, gabor_proc,
                          bin2, labels, heap \ {elem}, age)
          IN  /\ labels' = r.out
              /\ heap' = r.hp
              /\ age' = r.age
    /\ UNCHANGED <<gabor_proc, bin2, markers_arg, bin_nuc, markers,
                   boundaries_list, li, wpc>>
    /\ UNCHANGED <<vVars, sVars, cVars, bVars>>

\* line 200 returns when the queue is empty; lines 202-204 start the loop
WatershedReturns ==
    /\ wpc = "flood"
    /\ heap = {}
    /\ boundaries_list' = <<>>
    /\ li' = 1
    /\ wpc' = "loop"
    /\ UNCHANGED <<gabor_proc, bin2, markers_arg, bin_nuc, markers, labels,
                   heap, age>>
    /\ UNCHANGED <<vVars, sVars, cVars, bVars>>

\* lines 204-212, one iteration; cnts[0] is whichever contour the library
\* lists first
AppendBoundary ==
    /\ wpc = "loop"
    /\ li <= Len(UniquePositive(labels))
    /\ LET l == UniquePositive(labels)[li]
           cnts == LabelContours(labels, l)
       IN  \E c \in DOMAIN cnts :
              boundaries_list' =
                  Append(boundaries_list, Record(li - 1, l, BoundaryOf(cnts[c])))
    /\ li' = li + 1
    /\ UNCHANGED <<gabor_proc, bin2, markers_arg, bin_nuc, markers, labels,
                   heap, age, wpc>>
    /\ UNCHANGED <<vVars, sVars, cVars, bVars>>

\* line 214
ReturnBoundaries ==
    /\ wpc = "loop"
    /\ li > Len(UniquePositive(labels))
    /\ wpc' = "done"
    /\ UNCHANGED <<gabor_proc, bin2, markers_arg, bin_nuc, markers, labels,
                   heap, age, boundaries_list, li>>
    /\ UNCHANGED <<vVars, sVars, cVars, bVars>>

WNext ==
    \/ UseMarkers
    \/ DeriveMarkers
    \/ WatershedKeepingMarkers
    \/ WatershedMaskingMarkers
    \/ PopAndSpread
    \/ WatershedReturns
    \/ AppendBoundary
    \/ ReturnBoundaries

SpecCellBoundary == WInit /\ [][WNext]_vars

\* ---- claims about cell_boundary ----------------------------------------
\* the watershed has returned
Flooded == wpc \in {"loop", "done"}

\* the labels above zero in the output of the watershed
WsPositiveLabels == {labels[p] : p \in WsPixels} \ {0}

\* the part of the mask connected (by edges) to the masked pixel p
MaskComponent(p) == Flood(bin2, 1, {p}, {p})

\* the marked pixels inside a part of the mask
SeedsWithin(comp) == {q \in comp : markers[q] > 0}

\* the marked pixels outside the mask that touch a part of it by an edge
SeedsTouching(comp) ==
    {q \in WsPixels \ bin2 : markers[q] > 0 /\ Neighbours(q, 1) \cap comp # {}}

\* one record per distinct positive label, its id that label
OneRecordPerLabel ==
    /\ Len(boundaries_list) = Cardinality(WsPositiveLabels)
    /\ \A l \in WsPositiveLabels :
          Cardinality({i \in DOMAIN boundaries_list :
                          boundaries_list[i].id = l}) = 1
    /\ \A i \in DOMAIN boundaries_list :
          /\ boundaries_list[i].id \in WsPositiveLabels
          /\ boundaries_list[i].boundary # <<>>
          /\ \A j \in DOMAIN boundaries_list[i].boundary :
                labels[<<boundaries_list[i].boundary[j][2],
                         boundaries_list[i].boundary[j][1]>>]
                    = boundaries_list[i].id

\* C12 as stated: when the watershed of cell_boundary has returned, every
\* pixel of the mask carries the label of a seed, every pixel outside the
\* mask carries label 0, and the returned list holds exactly one record per
\* distinct positive label, with id equal to that label.
C12_EveryMaskedPixelInABasin ==
    /\ Flooded =>
          \A p \in WsPixels :
             /\ p \in bin2 => labels[p] \in {markers[q] : q \in WsPixels} \ {0}
             /\ p \notin bin2 => labels[p] = 0
    /\ wpc = "done" => OneRecordPerLabel

\* C12, amended: when the watershed of cell_boundary has returned, every
\* pixel carries one label.  A pixel of the mask whose part of the mask
\* holds a marked pixel carries a positive label; a positive label on a
\* pixel of the mask is the marker of a pixel in its part of the mask or of
\* a marked pixel outside the mask touching that part, so a pixel whose part
\* of the mask neither holds nor touches a marked pixel keeps label 0.  A
\* pixel outside the mask carries 0 or its own marker.  The returned list
\* holds exactly one record per distinct positive label, with id equal to
\* that label and a boundary made of pixels carrying that label.
C12_LabelledWhereSeeded ==
    /\ Flooded =>
          /\ DOMAIN labels = WsPixels
          /\ \A p \in bin2 :
                LET comp == MaskComponent(p)
                IN  /\ SeedsWithin(comp) # {} => labels[p] > 0
                    /\ labels[p] # 0 =>
                          labels[p] \in {markers[q] :
                                q \in SeedsWithin(comp) \cup SeedsTouching(comp)}
          /\ \A p \in WsPixels \ bin2 : labels[p] \in {0, markers[p]}
    /\ wpc = "done" => OneRecordPerLabel

\* the returned labelling leaves a pixel of the mask at 0 next to a part of
\* the mask that was flooded, and two records were returned
C12_Witness ==
    /\ wpc = "done"
    /\ \E p \in bin2 : labels[p] = 0
    /\ \E p \in bin2 : labels[p] > 0 /\ markers[p] = 0
    /\ boundaries_list # <<>>

\* a marked pixel outside the mask kept its label in the output
C12_MarkerOutsideMaskKept ==
    wpc = "done" /\ \E p \in WsPixels \ bin2 : labels[p] > 0

\* two seeds shared one part of the mask, and each got a record
C12_TwoBasins ==
    /\ wpc = "done"
    /\ Len(boundaries_list) = 2
    /\ \E p \in bin2 : Cardinality({markers[q] : q \in SeedsWithin(MaskComponent(p))}) = 2

\* the returned id differs from the position of the record in the list
C12_IdIsLabelNotIndex ==
    wpc = "done" /\ \E i \in DOMAIN boundaries_list : boundaries_list[i].id # i - 1

====
